---- MODULE Spec2Model ----
(***************************************************************************)
(* Model of the fondogis extraction pipeline:                              *)
(*   - the resumable batch orchestrator (batch_climate_extraction.py), its *)
(*     retry pass (retry_failed_climate.py) and the extraction subprocess  *)
(*     they launch (add_climate_projections.py), specification Spec;       *)
(*   - the final summary of a batch run as a function of the progress      *)
(*     lists, specification SpecReport;                                    *)
(*   - the scenario/period builders, specification SpecBuilder;            *)
(*   - the area-weighted water-stress aggregation, specification SpecWS;   *)
(*   - the pure helper functions (categories, estimators, changes) on      *)
(*     inputs of their own, specification SpecFn;                          *)
(*   - the grid sampler of extract_climate_timeseries.py, specification    *)
(*     SpecGrid;                                                           *)
(*   - main and process_anp of the extractor scripts, with the counts of   *)
(*     their summary line, specification SpecMain.                         *)
(***************************************************************************)
EXTENDS Integers, Sequences, FiniteSets, TLC

VARIABLES
    \* ---- batch orchestrator, retry pass, extraction subprocess ----
    files,        \* region -> content kind of its <region>_data.json
    store,        \* the progress file climate_extraction_progress.json
    pc,           \* position of the running script ("idle": none is running,
                  \* "exited": the script has just ended)
    progress,     \* the in-memory progress dict of the running script
    idx,          \* loop position in all_files (batch) or in failed (retry)
    child,        \* the extraction subprocess: -1 none, 0 starting, k at file k
    child_timeout,\* the timeout the running/last subprocess was given
    retry,        \* retry pass locals: failed (iterated), newly_completed, still_failed
    runs,         \* number of script invocations so far
    report,       \* the last final summary logged
    hist,         \* history of the current invocation (for the properties)
    all_files,    \* the batch run's list of data files (<<>>: none built)
    \* ---- final summary on its own ----
    rp,
    \* ---- scenario/period builders ----
    bd,
    \* ---- water-stress aggregation ----
    ws,
    \* ---- the last call of a pure helper function ----
    fc,
    \* ---- the grid sampler create_grid_points ----
    gd,
    \* ---- main of an extractor script, counting its outcomes ----
    mn

vars == <<files, store, pc, progress, idx, child, child_timeout, retry, runs,
          report, hist, all_files, rp, bd, ws, fc, gd, mn>>

batchVars == <<files, store, pc, progress, idx, child, child_timeout, retry,
               runs, report, hist, all_files>>

(***************************************************************************)
(* Bounds of the model.                                                    *)
(***************************************************************************)
NumRegions == 2
MaxRuns == 3
MaxFailed == 12
MaxListed == 2
MaxUnits == 2

MaxFiles == 3

(***************************************************************************)
(* Program constants.                                                      *)
(***************************************************************************)
MainTimeout == 1800
RetryTimeout == 3600
SummaryNameLimit == 10

Regions == 1..NumRegions

Contains(s, x) == \E k \in DOMAIN s : s[k] = x

Range(s) == {s[k] : k \in DOMAIN s}

Min(a, b) == IF a < b THEN a ELSE b

(***************************************************************************)
(* Region data files.  A file is abstracted to what the scripts read of    *)
(* it: whether it has geometry bounds and what its                         *)
(* datasets.climate_projections record is:                                 *)
(*   "none"     bounds, no climate_projections record                      *)
(*   "nobounds" no bounds, no climate_projections record                   *)
(*   "single"   data_available record as add_climate_projections writes it *)
(*              (scenarios.ssp245 = temperature/precipitation/...)         *)
(*   "error"    {data_available: False, error: ...}                        *)
(*   "multi"    data_available record whose scenarios.ssp245 has the key   *)
(*              '2041-2070'                                                *)
(***************************************************************************)
InitialFileKinds == {"none", "nobounds", "multi"}

\* glob(DATA_DIR/*_data.json): the data files in the order the file system
\* lists them (any order); region ids are numbered in path order
GlobListings ==
    {l \in [1..NumRegions -> Regions] :
        \A i, j \in 1..NumRegions : i # j => l[i] # l[j]}

RECURSIVE sorted(_)
\* sorted(files): ascending
sorted(l) ==
    IF l = <<>> THEN <<>>
    ELSE LET m == CHOOSE k \in 1..Len(l) : \A j \in 1..Len(l) : l[k] <= l[j]
         IN  <<l[m]>> \o sorted([j \in 1..(Len(l) - 1) |->
                                    IF j < m THEN l[j] ELSE l[j + 1]])

\* Mutant: the listing is used in the order glob returned it
get_all_anp_files_unsorted(listing) == listing

get_all_anp_files(listing) == sorted(listing)

\* '2041-2070' in datasets.climate_projections.scenarios.ssp245
check_has_multi_period(kind) == kind = "multi"

(***************************************************************************)
(* The progress file.                                                      *)
(***************************************************************************)
EmptyProgress == [completed |-> <<>>, failed |-> <<>>, skipped |-> <<>>]

StoreAbsent == [kind |-> "absent", data |-> EmptyProgress]

\* open(PROGRESS_FILE, 'w') has truncated the file and json.dump has not
\* written it yet: the file exists and holds no JSON document
StoreTruncated == [kind |-> "truncated", data |-> EmptyProgress]

StoreJson(p) == [kind |-> "json", data |-> p]

\* load_progress: the default for a missing file, else json.load (which
\* raises on a file that holds no JSON document)
load_progress_raises == store.kind = "truncated"

load_progress == IF store.kind = "json" THEN store.data ELSE EmptyProgress

NoRetry == [failed |-> <<>>, newly_completed |-> <<>>, still_failed |-> <<>>]

NoReport == [kind |-> "none", completed |-> 0, skipped |-> 0, failed |-> 0,
             names |-> <<>>, more |-> FALSE]

\* Mutant: the "Failed ANPs:" line cut one name short
FinalSummary_short(p) ==
    [kind |-> "batch",
     completed |-> Len(p.completed),
     skipped |-> Len(p.skipped),
     failed |-> Len(p.failed),
     names |-> SubSeq(p.failed, 1, Min(Len(p.failed), SummaryNameLimit - 1)),
     more |-> Len(p.failed) > SummaryNameLimit]

\* The final summary logged by the batch run: three counts and the
\* "Failed ANPs:" line (', '.join(failed[:10]) + '...' if more than 10)
FinalSummary(p) ==
    [kind |-> "batch",
     completed |-> Len(p.completed),
     skipped |-> Len(p.skipped),
     failed |-> Len(p.failed),
     names |-> SubSeq(p.failed, 1, Min(Len(p.failed), SummaryNameLimit)),
     more |-> Len(p.failed) > SummaryNameLimit]

\* The summary of the retry pass: two counts and every still-failed name
RetrySummary(newly, still) ==
    [kind |-> "retry",
     completed |-> Len(newly),
     skipped |-> 0,
     failed |-> Len(still),
     names |-> still,
     more |-> FALSE]

NoHist == [script |-> "none",
           loaded |-> {},      \* ids in `completed` when progress was loaded
           started |-> {},     \* regions an extraction was started for
           multi |-> {},       \* regions found to have multi-period data
           last |-> "none",    \* outcome of the last extraction classified
           timeouts |-> {},    \* timeouts given to the subprocesses
           inflight |-> 0,     \* region being processed (0: none)
           died |-> FALSE,     \* the script ended on an uncaught exception
           ended |-> FALSE]    \* the script ran to its last statement

(***************************************************************************)
(* add_climate_projections.py, the extraction subprocess.                  *)
(***************************************************************************)

\* main: the files it processes, from sys.argv[1] (only that argument is
\* read): '--test' the first 3, '--force' all of them, else the files
\* whose path contains the argument
cp_main_data_files(arg1) ==
    IF arg1 = "--test" THEN {k \in Regions : k <= 3}
    ELSE IF arg1 = "--force" THEN Regions
    ELSE {k \in Regions : k = arg1}

\* process_anp: the contents the file can have afterwards.  A record that
\* is data_available without error, or a file without bounds, is skipped;
\* otherwise extract_climate_projections' result is written: a
\* data_available record (two scenarios, no period keys) or an error record
cp_process_anp(kind) ==
    IF kind \in {"single", "multi"} THEN {kind}
    ELSE IF kind = "nobounds" THEN {kind}
    ELSE {"single", "error"}

\* extract_climate_for_anp: argv of the subprocess and its timeout
extract_climate_for_anp_argv(anp_name) == <<"--force", anp_name>>

(***************************************************************************)
(* batch_climate_extraction.py main, run as a script.                      *)
(***************************************************************************)
Append1(p, field, r) ==
    CASE field = "completed" -> [p EXCEPT !.completed = Append(@, r)]
      [] field = "failed" -> [p EXCEPT !.failed = Append(@, r)]
      [] OTHER -> [p EXCEPT !.skipped = Append(@, r)]

batch_main_start ==
    /\ pc = "idle"
    /\ runs < MaxRuns
    /\ runs' = runs + 1
    /\ IF load_progress_raises
       THEN /\ pc' = "exited"
            /\ progress' = EmptyProgress
            /\ idx' = 0
            /\ hist' = [NoHist EXCEPT !.script = "batch", !.died = TRUE]
       ELSE /\ pc' = "main_loop"
            /\ progress' = load_progress
            /\ idx' = 1
            /\ hist' = [NoHist EXCEPT !.script = "batch",
                                      !.loaded = Range(load_progress.completed)]
    /\ retry' = NoRetry
    /\ \E listing \in GlobListings : all_files' = get_all_anp_files(listing)
    /\ UNCHANGED <<files, store, child, child_timeout, report,
                   rp, bd, ws, fc, gd, mn>>

\* Mutant: the test `anp_name in progress['completed']` is missing
main_loop_branch_no_completed_test(p, r, kind) ==
    IF check_has_multi_period(kind)
    THEN IF ~Contains(p.skipped, r) THEN "skip_and_save" ELSE "continue"
    ELSE "extract"

\* Mutant: the two tests of the skip branch joined by `and`, so that a
\* region already in `skipped` falls through to the extraction
main_loop_branch_joined_tests(p, r, kind) ==
    IF Contains(p.completed, r) THEN "continue"
    ELSE IF check_has_multi_period(kind) /\ ~Contains(p.skipped, r)
    THEN "skip_and_save"
    ELSE "extract"

\* The branch one iteration of `for filepath in all_files` takes
main_loop_branch(p, r, kind) ==
    IF Contains(p.completed, r) THEN "continue"
    ELSE IF check_has_multi_period(kind)
    THEN IF ~Contains(p.skipped, r) THEN "skip_and_save" ELSE "continue"
    ELSE "extract"

\* One iteration of `for filepath in all_files` up to the point where it
\* continues, saves or launches the subprocess
batch_main_visit ==
    /\ pc = "main_loop"
    /\ idx <= NumRegions
    /\ LET r == all_files[idx]
           branch == main_loop_branch(progress, r, files[r])
           found == IF ~Contains(progress.completed, r)
                       /\ check_has_multi_period(files[r])
                    THEN {r} ELSE {}
       IN
       IF branch = "continue"
       THEN /\ idx' = idx + 1
            /\ hist' = [hist EXCEPT !.multi = @ \cup found]
            /\ UNCHANGED <<pc, progress, child, child_timeout>>
       ELSE IF branch = "skip_and_save"
       THEN /\ progress' = Append1(progress, "skipped", r)
            /\ pc' = "main_classified"
            /\ hist' = [hist EXCEPT !.multi = @ \cup found,
                                    !.last = "skipped",
                                    !.inflight = r]
            /\ UNCHANGED <<idx, child, child_timeout>>
       ELSE /\ pc' = "main_extract"
            /\ child' = 0
            /\ child_timeout' = MainTimeout
            /\ hist' = [hist EXCEPT !.multi = @ \cup found,
                                    !.started = @ \cup {r},
                                    !.timeouts = @ \cup {MainTimeout},
                                    !.inflight = r]
            /\ UNCHANGED <<idx, progress>>
    /\ UNCHANGED <<files, store, retry, runs, report, all_files,
                   rp, bd, ws, fc, gd, mn>>

\* Mutant: no `except Exception` handler, an exception other than
\* TimeoutExpired ends the run
batch_main_classify_no_handler(outcome) ==
    LET r == all_files[idx]
        field == IF outcome = "exit0" /\ check_has_multi_period(files[r])
                 THEN "completed" ELSE "failed"
    IN  /\ progress' = IF outcome = "exception" THEN progress
                       ELSE Append1(progress, field, r)
        /\ pc' = IF outcome = "exception" THEN "exited" ELSE "main_classified"
        /\ child' = -1
        /\ child_timeout' = 0
        /\ hist' = [hist EXCEPT !.last = outcome,
                                !.died = (outcome = "exception")]
        /\ UNCHANGED <<idx, retry>>

\* The try/except around extract_climate_for_anp: the outcome is
\* "exit0", "exit1", "timeout" (subprocess.TimeoutExpired) or "exception"
batch_main_classify(outcome) ==
    LET r == all_files[idx]
        field == IF outcome = "exit0" /\ check_has_multi_period(files[r])
                 THEN "completed" ELSE "failed"
    IN  /\ progress' = Append1(progress, field, r)
        /\ pc' = "main_classified"
        /\ child' = -1
        /\ child_timeout' = 0
        /\ hist' = [hist EXCEPT !.last = outcome]
        /\ UNCHANGED <<idx, retry>>

\* save_progress, first half: open(PROGRESS_FILE, 'w')
save_progress_open ==
    /\ pc = "main_classified"
    /\ store' = StoreTruncated
    /\ pc' = "main_saving"
    /\ UNCHANGED <<files, progress, idx, child, child_timeout, retry, runs,
                   report, hist, all_files,
                   rp, bd, ws, fc, gd, mn>>

\* save_progress, second half: json.dump and close; then the loop goes on
\* (after the skip branch's continue, or after time.sleep(2))
save_progress_dump ==
    /\ pc = "main_saving"
    /\ store' = StoreJson(progress)
    /\ pc' = "main_loop"
    /\ idx' = idx + 1
    /\ hist' = [hist EXCEPT !.inflight = 0, !.last = "none"]
    /\ UNCHANGED <<files, progress, child, child_timeout, retry, runs,
                   report, all_files,
                   rp, bd, ws, fc, gd, mn>>

batch_main_summary ==
    /\ pc = "main_loop"
    /\ idx = NumRegions + 1
    /\ report' = FinalSummary(progress)
    /\ pc' = "exited"
    /\ hist' = [hist EXCEPT !.ended = TRUE]
    /\ UNCHANGED <<files, store, progress, idx, child, child_timeout, retry,
                   runs, all_files,
                   rp, bd, ws, fc, gd, mn>>

(***************************************************************************)
(* retry_failed_climate.py main.                                           *)
(***************************************************************************)
retry_main_start ==
    /\ pc = "idle"
    /\ runs < MaxRuns
    /\ runs' = runs + 1
    /\ IF store.kind # "json"
       THEN \* open() or json.load raises
            /\ pc' = "exited"
            /\ progress' = EmptyProgress
            /\ retry' = NoRetry
            /\ idx' = 0
            /\ hist' = [NoHist EXCEPT !.script = "retry", !.died = TRUE]
       ELSE /\ pc' = "retry_loop"
            /\ progress' = store.data
            /\ retry' = [NoRetry EXCEPT !.failed = store.data.failed]
            /\ idx' = 1
            /\ hist' = [NoHist EXCEPT !.script = "retry",
                                      !.loaded = Range(store.data.completed)]
    /\ UNCHANGED <<files, store, child, child_timeout, report, all_files,
                   rp, bd, ws, fc, gd, mn>>

retry_main_visit ==
    /\ pc = "retry_loop"
    /\ idx <= Len(retry.failed)
    /\ pc' = "retry_extract"
    /\ child' = 0
    /\ child_timeout' = RetryTimeout
    /\ hist' = [hist EXCEPT !.started = @ \cup {retry.failed[idx]},
                            !.timeouts = @ \cup {RetryTimeout},
                            !.inflight = retry.failed[idx]]
    /\ UNCHANGED <<files, store, progress, idx, retry, runs, report, all_files,
                   rp, bd, ws, fc, gd, mn>>

retry_main_classify(outcome) ==
    LET anp == retry.failed[idx] IN
    /\ retry' = IF outcome = "exit0"
                THEN [retry EXCEPT !.newly_completed = Append(@, anp)]
                ELSE [retry EXCEPT !.still_failed = Append(@, anp)]
    /\ pc' = "retry_loop"
    /\ idx' = idx + 1
    /\ child' = -1
    /\ child_timeout' = 0
    /\ hist' = [hist EXCEPT !.last = outcome, !.inflight = 0]
    /\ UNCHANGED progress

\* Mutant: the still-failed regions are not written back
retry_update_progress_drops(p, newly, still) ==
    [p EXCEPT !.completed = @ \o newly, !.failed = <<>>]

\* progress['completed'].extend(newly_completed); progress['failed'] = still_failed
retry_update_progress(p, newly, still) ==
    [p EXCEPT !.completed = @ \o newly, !.failed = still]

\* After the loop: update progress, open the file for writing
retry_main_update ==
    /\ pc = "retry_loop"
    /\ idx = Len(retry.failed) + 1
    /\ progress' = retry_update_progress(progress, retry.newly_completed,
                                         retry.still_failed)
    /\ store' = StoreTruncated
    /\ pc' = "retry_saving"
    /\ UNCHANGED <<files, idx, child, child_timeout, retry, runs, report,
                   hist, all_files,
                   rp, bd, ws, fc, gd, mn>>

\* json.dump, close, and the RETRY COMPLETE summary
retry_main_dump ==
    /\ pc = "retry_saving"
    /\ store' = StoreJson(progress)
    /\ report' = RetrySummary(retry.newly_completed, retry.still_failed)
    /\ pc' = "exited"
    /\ hist' = [hist EXCEPT !.ended = TRUE]
    /\ UNCHANGED <<files, progress, idx, child, child_timeout, retry, runs,
                   all_files,
                   rp, bd, ws, fc, gd, mn>>

(***************************************************************************)
(* The subprocess, as subprocess.run(..., timeout=...) sees it.            *)
(***************************************************************************)
ChildRunning == pc \in {"main_extract", "retry_extract"}

Classify(outcome) ==
    IF pc = "main_extract"
    THEN batch_main_classify(outcome)
    ELSE retry_main_classify(outcome)

\* subprocess.run raises something other than TimeoutExpired (OSError)
subprocess_run_raises ==
    /\ ChildRunning
    /\ child = 0
    /\ Classify("exception")
    /\ UNCHANGED <<files, store, runs, report, all_files,
                   rp, bd, ws, fc, gd, mn>>

\* add_climate_projections.main: init() raises, the script exits non-zero
cp_main_init_fails ==
    /\ ChildRunning
    /\ child = 0
    /\ Classify("exit1")
    /\ UNCHANGED <<files, store, runs, report, all_files,
                   rp, bd, ws, fc, gd, mn>>

cp_main_init ==
    /\ ChildRunning
    /\ child = 0
    /\ child' = 1
    /\ UNCHANGED <<files, store, pc, progress, idx, child_timeout, retry,
                   runs, report, hist, all_files,
                   rp, bd, ws, fc, gd, mn>>

\* One iteration of main's loop over data_files (all files under --force)
cp_main_process_anp ==
    /\ ChildRunning
    /\ child \in 1..NumRegions
    /\ IF child \in cp_main_data_files("--force")
       THEN \E k \in cp_process_anp(files[child]) :
                files' = [files EXCEPT ![child] = k]
       ELSE UNCHANGED files
    /\ child' = child + 1
    /\ UNCHANGED <<store, pc, progress, idx, child_timeout, retry, runs,
                   report, hist, all_files,
                   rp, bd, ws, fc, gd, mn>>

cp_main_exit ==
    /\ ChildRunning
    /\ child = NumRegions + 1
    /\ Classify("exit0")
    /\ UNCHANGED <<files, store, runs, report, all_files,
                   rp, bd, ws, fc, gd, mn>>

\* The timeout expires: the subprocess is killed, TimeoutExpired is raised
subprocess_timeout ==
    /\ ChildRunning
    /\ child \in 0..NumRegions
    /\ Classify("timeout")
    /\ UNCHANGED <<files, store, runs, report, all_files,
                   rp, bd, ws, fc, gd, mn>>

\* The process is gone: only the files remain
ProcessGone ==
    /\ pc' = "idle"
    /\ progress' = EmptyProgress
    /\ idx' = 0
    /\ child' = -1
    /\ child_timeout' = 0
    /\ retry' = NoRetry
    /\ report' = NoReport
    /\ hist' = NoHist
    /\ all_files' = <<>>
    /\ UNCHANGED <<files, store, runs, rp, bd, ws, fc, gd, mn>>

\* The script has ended (last statement, or an uncaught exception)
Exit ==
    /\ pc = "exited"
    /\ ProcessGone

\* The running script is killed (with its subprocess) at any point
Crash ==
    /\ pc \notin {"idle", "exited"}
    /\ ProcessGone

BatchInit ==
    /\ files \in [Regions -> InitialFileKinds]
    /\ store = StoreAbsent
    /\ pc = "idle"
    /\ progress = EmptyProgress
    /\ idx = 0
    /\ child = -1
    /\ child_timeout = 0
    /\ retry = NoRetry
    /\ runs = 0
    /\ report = NoReport
    /\ hist = NoHist
    /\ all_files = <<>>

RpOff == [progress |-> EmptyProgress, report |-> NoReport, logged |-> FALSE]

WsOff == [units |-> <<>>, called |-> FALSE]

BdOff == [script |-> "none"]

GdOff == [pc |-> "off"]

MnOff == [pc |-> "off"]

FcOff == [fn |-> "none", script |-> "none", a |-> [some |-> FALSE, v |-> 0],
          b |-> [some |-> FALSE, v |-> 0], is_percent |-> FALSE,
          out |-> [some |-> FALSE, v |-> 0], label |-> "None"]

Init ==
    /\ BatchInit
    /\ rp = RpOff
    /\ bd = BdOff
    /\ fc = FcOff
    /\ gd = GdOff
    /\ mn = MnOff
    /\ ws = WsOff

Next ==
    \/ batch_main_start
    \/ batch_main_visit
    \/ save_progress_open
    \/ save_progress_dump
    \/ batch_main_summary
    \/ retry_main_start
    \/ retry_main_visit
    \/ retry_main_update
    \/ retry_main_dump
    \/ subprocess_run_raises
    \/ cp_main_init_fails
    \/ cp_main_init
    \/ cp_main_process_anp
    \/ cp_main_exit
    \/ subprocess_timeout
    \/ Exit
    \/ Crash

Spec == Init /\ [][Next]_vars

(***************************************************************************)
(* Properties of the batch run and the retry pass.                         *)
(***************************************************************************)
Last(s) == s[Len(s)]

MainRunning == hist.script = "batch" /\ pc \notin {"idle", "exited"}

\* C1: a batch run starts no extraction for a region whose id was in
\* `completed` of the progress store it loaded.
C1_CompletedNotRestarted ==
    hist.script = "batch" => hist.started \cap hist.loaded = {}

\* A re-run that loaded a store with a completed region, passed over it and
\* started the extraction of another region, and ran to its end.
C1_Witness ==
    /\ hist.script = "batch"
    /\ hist.ended
    /\ runs >= 2
    /\ hist.loaded # {}
    /\ hist.started # {}
    /\ hist.started \cup hist.loaded = Regions

\* C2: at every point of a batch run (every point it can be killed at),
\* the progress file holds every entry of the in-memory progress lists,
\* except at most the entry of the region in flight.
HeldByStore(mem, disk) ==
    \A k \in DOMAIN mem :
        \/ k = Len(mem) /\ mem[k] = hist.inflight
        \/ k <= Len(disk) /\ disk[k] = mem[k]

C2_CrashLosesAtMostInFlight ==
    MainRunning =>
        /\ HeldByStore(progress.completed, store.data.completed)
        /\ HeldByStore(progress.failed, store.data.failed)
        /\ HeldByStore(progress.skipped, store.data.skipped)

\* C3: the retry pass attempts exactly the regions in `failed` when it
\* starts, each with twice the batch run's timeout, and when it has ended
\* every region it attempted is in `completed` or `failed` of the file.
C3_RetryPass ==
    hist.script = "retry" =>
        /\ hist.started \subseteq Range(retry.failed)
        /\ hist.timeouts \subseteq {2 * MainTimeout}
        /\ hist.ended =>
              /\ hist.started = Range(retry.failed)
              /\ store.kind = "json"
              /\ \A r \in hist.started :
                    \/ Contains(store.data.completed, r)
                    \/ Contains(store.data.failed, r)

\* A retry pass that ended with a region newly completed and another one
\* still failed.
C3_Witness ==
    /\ hist.script = "retry"
    /\ hist.ended
    /\ Len(retry.newly_completed) > 0
    /\ Len(retry.still_failed) > 0

\* C4: in the batch loop a non-zero exit, a timeout or any other exception
\* of the extraction call puts the region in `failed`; none of them ends the
\* run (only loading the progress file can), the wait for the subprocess
\* can always end, and a run that ends has gone through every region.
C4_FailureRecordedLoopGoesOn ==
    hist.script = "batch" =>
        /\ (pc = "main_classified" /\ hist.last \in {"exit1", "timeout", "exception"})
              => (Len(progress.failed) > 0 /\ Last(progress.failed) = hist.inflight)
        /\ hist.died => hist.started = {}
        /\ pc = "main_extract" => ENABLED (subprocess_timeout \/ cp_main_exit)
        /\ hist.ended => idx = NumRegions + 1

\* The second region timed out after the first one had failed and had been
\* saved: the loop went on after a failure.
C4_Witness ==
    /\ hist.script = "batch"
    /\ pc = "main_classified"
    /\ hist.last = "timeout"
    /\ idx = 2
    /\ Contains(progress.failed, 1)
    /\ Contains(store.data.failed, 1)

\* C5: a region not in `completed` whose record has multi-period data is
\* in `skipped` and no extraction is started for it in that run; when the
\* run has ended it is in `skipped` of the progress file.
C5_MultiPeriodSkipped ==
    hist.script = "batch" =>
        /\ \A r \in hist.multi :
              Contains(progress.skipped, r) /\ r \notin hist.started
        /\ hist.ended =>
              \A r \in hist.multi : Contains(store.data.skipped, r)

\* A run that ended, skipped a region for its multi-period data and
\* extracted another.
C5_Witness ==
    /\ hist.script = "batch"
    /\ hist.ended
    /\ hist.multi # {}
    /\ hist.started # {}


(***************************************************************************)
(* The final summary of the batch run on its own: the end of main applied  *)
(* to progress lists of any length (a run over many regions).              *)
(***************************************************************************)
BatchOff ==
    /\ files = [r \in Regions |-> "none"]
    /\ store = StoreAbsent
    /\ pc = "idle"
    /\ progress = EmptyProgress
    /\ idx = 0
    /\ child = -1
    /\ child_timeout = 0
    /\ retry = NoRetry
    /\ runs = 0
    /\ report = NoReport
    /\ hist = NoHist
    /\ all_files = <<>>

\* n region ids; with dup, every id occurs twice in a row (a region that
\* failed in two runs)
Ids(n, from, dup) ==
    [k \in 1..n |-> from + (IF dup THEN (k + 1) \div 2 ELSE k)]

ReportInit ==
    /\ BatchOff
    /\ \E c \in 0..MaxListed, sk \in 0..MaxListed, f \in 0..MaxFailed,
          dup \in BOOLEAN :
          rp = [progress |-> [completed |-> Ids(c, 100, FALSE),
                              skipped |-> Ids(sk, 200, FALSE),
                              failed |-> Ids(f, 0, dup)],
                report |-> NoReport,
                logged |-> FALSE]
    /\ bd = BdOff
    /\ fc = FcOff
    /\ gd = GdOff
    /\ mn = MnOff
    /\ ws = WsOff

\* main, lines "Final summary" to the end
batch_main_log_summary ==
    /\ ~rp.logged
    /\ rp' = [rp EXCEPT !.report = FinalSummary(rp.progress), !.logged = TRUE]
    /\ UNCHANGED <<batchVars, bd, ws, fc, gd, mn>>

ReportNext == batch_main_log_summary

SpecReport == ReportInit /\ [][ReportNext]_vars

\* C6 (as stated): the final summary gives the three counts and names every
\* region id in `failed`, for any number of failed regions.
C6_SummaryNamesEveryFailed ==
    rp.logged =>
        /\ rp.report.completed = Len(rp.progress.completed)
        /\ rp.report.skipped = Len(rp.progress.skipped)
        /\ rp.report.failed = Len(rp.progress.failed)
        /\ Range(rp.report.names) = Range(rp.progress.failed)

\* C6 (amended): the final summary gives the three counts; it names every
\* entry of `failed` when there are at most 10, and otherwise the first 10
\* entries followed by '...'.
C6_SummaryNamesFirstTen ==
    rp.logged =>
        /\ rp.report.completed = Len(rp.progress.completed)
        /\ rp.report.skipped = Len(rp.progress.skipped)
        /\ rp.report.failed = Len(rp.progress.failed)
        /\ Len(rp.progress.failed) <= 10 =>
              (rp.report.names = rp.progress.failed /\ ~rp.report.more)
        /\ Len(rp.progress.failed) > 10 =>
              /\ Len(rp.report.names) = 10
              /\ \A k \in 1..10 : rp.report.names[k] = rp.progress.failed[k]
              /\ rp.report.more

\* A summary logged for more than 10 failed regions.
C6_Witness ==
    /\ rp.logged
    /\ Len(rp.progress.failed) > 10
    /\ Len(rp.progress.completed) > 0


(***************************************************************************)
(* The scenario/period builders: extract_ssr_climate_indicators            *)
(* (add_ssr_climate_indicators.py) and extract_climate_projections         *)
(* (add_climate_projections.py).  The backend is the sequence of           *)
(* reduceRegion(...).getInfo() requests a builder makes; each request is   *)
(* answered with a value, with a reply lacking the key, or by raising.     *)
(*                                                                         *)
(* Units: temperatures from the backend in mK, reported in 0.01 C;         *)
(* precipitation and runoff rates in 1e-7 kg/m2/s, annual sums in 0.1 mm;  *)
(* soil moisture in 0.01 kg/m2; percentages in 0.1 %.                      *)
(***************************************************************************)
None == [some |-> FALSE, v |-> 0]

Some(x) == [some |-> TRUE, v |-> x]

\* A field never requested, and the dict a caught failure leaves:
\* {'available': False, 'note': ...}
Unset == [some |-> FALSE, v |-> -1]

Unavailable == [some |-> FALSE, v |-> -2]

\* Python truthiness of an optional number
Truthy(o) == o.some /\ o.v # 0

\* round(n/d) to the nearest integer, ties to even (d > 0)
RoundDiv(n, d) ==
    LET q == n \div d
        r == n % d
    IN  IF 2 * r < d THEN q
        ELSE IF 2 * r > d THEN q + 1
        ELSE IF q % 2 = 0 THEN q ELSE q + 1

\* kelvin_to_celsius: round(k - 273.15, 2)
kelvin_to_celsius(k) ==
    IF ~k.some THEN None ELSE Some(RoundDiv(k.v - 273150, 10))

\* round(rate * 86400 * 365, 1)
annual_mm(rate) == RoundDiv(rate * 31536, 1000)

\* calculate_change(future_val, baseline_val, is_percent)
calculate_change(future_val, baseline_val, is_percent) ==
    IF ~future_val.some \/ ~baseline_val.some THEN None
    ELSE IF is_percent /\ baseline_val.v # 0
    THEN IF baseline_val.v > 0
         THEN Some(RoundDiv((future_val.v - baseline_val.v) * 1000, baseline_val.v))
         ELSE Some(RoundDiv((baseline_val.v - future_val.v) * 1000, -baseline_val.v))
    ELSE Some(future_val.v - baseline_val.v)

\* The backend's replies to a request for a band's statistic
Raise == [some |-> FALSE, v |-> -3]

BackendValues(band) ==
    CASE band = "tas" -> {293150, 295654}
      [] band = "tasmax" -> {303150}
      [] band = "tasmin" -> {288150}
      [] band = "pr" -> {0, 317}
      [] band = "mrso" -> {150000}
      [] band = "mrro" -> {95}
      [] band = "pr_year" -> {9997}
      [] band = "pr_day" -> {317}

PartialBands == {"tas", "tasmin", "pr", "mrso", "pr_year"}

Replies(band) ==
    {Raise} \cup {Some(x) : x \in BackendValues(band)}
            \cup (IF band \in PartialBands THEN {None} ELSE {})

AllBands == {"tas", "tasmax", "tasmin", "pr", "mrso", "mrro", "pr_year", "pr_day"}

NoCell == [b \in {"tas", "tasmax", "tasmin", "pr", "mrso", "mrro"} |-> Unset]

NoBase == [b \in AllBands |-> [count |-> 0, first |-> Unset]]

NoPeriodData == [cell |-> 0, mean_c |-> Unset, change_c |-> Unset,
                 change_max_c |-> Unset, change_min_c |-> Unset,
                 annual_mm |-> Unset, change_percent |-> Unset,
                 change_mm |-> Unset, soil_change_percent |-> Unset,
                 runoff_change_percent |-> Unset]

\* The baseline-period requests made so far for a band, with the first reply
CountBase(base, band, reply) ==
    [base EXCEPT ![band] = [count |-> @.count + 1,
                            first |-> IF @.count = 0 THEN reply ELSE @.first]]

(***************************************************************************)
(* add_ssr_climate_indicators.py                                           *)
(***************************************************************************)
\* The requests of one cell, in order: extract_temperature_indicators
\* (tas, tasmax, tasmin), extract_precipitation_indicators (pr),
\* extract_soil_moisture_indicators (mrso), extract_runoff_indicators (mrro)
SsrBands == <<"tas", "tasmax", "tasmin", "pr", "mrso", "mrro">>

\* reference, then ssp245 and ssp585, each early, mid and end of century
SsrCells == 7

\* The request is inside a try/except of its extract_* function
ssr_request_guarded(band) == band \in {"mrso", "mrro"}

\* extract_precipitation_indicators: annual_mm
ssr_precip_annual(pr) == IF pr.some THEN Some(annual_mm(pr.v)) ELSE None

\* extract_soil_moisture_indicators: mean_kg_m2 (round(x, 2) if x else None)
ssr_soil_mean(mrso) ==
    IF mrso = Unavailable THEN Unavailable
    ELSE IF Truthy(mrso) THEN mrso ELSE None

\* extract_runoff_indicators: annual_mm (None unless the reply is truthy)
ssr_runoff_annual(mrro) ==
    IF mrro = Unavailable THEN Unavailable
    ELSE IF Truthy(mrro) THEN Some(annual_mm(mrro.v)) ELSE None

\* period_data of a future cell against the reference results
ssr_period_data(cell, cur, ref) ==
    LET mean_c == kelvin_to_celsius(cur["tas"])
        ann == ssr_precip_annual(cur["pr"])
        ref_ann == ssr_precip_annual(ref["pr"])
        soil == ssr_soil_mean(cur["mrso"])
        ref_soil == ssr_soil_mean(ref["mrso"])
        runoff == ssr_runoff_annual(cur["mrro"])
        ref_runoff == ssr_runoff_annual(ref["mrro"])
    IN  [cell |-> cell,
         mean_c |-> mean_c,
         change_c |-> calculate_change(mean_c, kelvin_to_celsius(ref["tas"]), FALSE),
         change_max_c |-> calculate_change(kelvin_to_celsius(cur["tasmax"]),
                                           kelvin_to_celsius(ref["tasmax"]), FALSE),
         change_min_c |-> calculate_change(kelvin_to_celsius(cur["tasmin"]),
                                           kelvin_to_celsius(ref["tasmin"]), FALSE),
         annual_mm |-> ann,
         change_percent |-> calculate_change(ann, ref_ann, TRUE),
         change_mm |-> calculate_change(ann, ref_ann, FALSE),
         soil_change_percent |->
             IF Truthy(ref_soil) /\ Truthy(soil)
             THEN calculate_change(soil, ref_soil, TRUE) ELSE Unset,
         runoff_change_percent |->
             IF Truthy(ref_runoff) /\ Truthy(runoff)
             THEN calculate_change(runoff, ref_runoff, TRUE) ELSE Unset]

\* One backend request of extract_ssr_climate_indicators and what follows
\* it up to the next request (or the return)
ssr_request ==
    /\ bd.script = "ssr"
    /\ bd.pc = "run"
    /\ LET band == SsrBands[bd.step] IN
       \E reply \in Replies(band) :
         LET isbase == bd.cell = 0
             base1 == IF isbase THEN CountBase(bd.base, band, reply) ELSE bd.base
         IN
         IF reply = Raise /\ ~ssr_request_guarded(band)
         THEN \* the exception reaches the except of extract_ssr_climate_indicators
              bd' = [bd EXCEPT !.pc = "done",
                               !.base = base1,
                               !.raised = @ \cup {band},
                               !.last = NoPeriodData,
                               !.data_available = FALSE,
                               !.error = TRUE]
         ELSE
         LET val == IF reply = Raise THEN Unavailable ELSE reply
             cur1 == [bd.cur EXCEPT ![band] = val]
             raised1 == IF reply = Raise THEN bd.raised \cup {band} ELSE bd.raised
         IN
         IF bd.step < Len(SsrBands)
         THEN bd' = [bd EXCEPT !.step = @ + 1, !.cur = cur1, !.base = base1,
                               !.raised = raised1, !.last = NoPeriodData]
         ELSE bd' = [bd EXCEPT
                        !.step = 1,
                        !.cell = @ + 1,
                        !.cur = NoCell,
                        !.base = base1,
                        !.raised = raised1,
                        !.ref = IF isbase THEN cur1 ELSE @,
                        !.last = IF isbase THEN NoPeriodData
                                 ELSE ssr_period_data(bd.cell, cur1, bd.ref),
                        !.cells_done = @ + 1,
                        !.pc = IF bd.cell + 1 = SsrCells THEN "done" ELSE "run",
                        !.data_available = (bd.cell + 1 = SsrCells)]
    /\ UNCHANGED <<batchVars, rp, ws, fc, gd, mn>>

(***************************************************************************)
(* add_climate_projections.py                                              *)
(***************************************************************************)
\* The requests of extract_scenario_data, in order: temperature stats,
\* precipitation stats, heat indicators, drought indicators, each for the
\* baseline collection and then for the future one
CpRequests == << <<"tas", "baseline">>, <<"tas", "future">>,
                 <<"pr_year", "baseline">>, <<"pr_year", "future">>,
                 <<"tasmin", "baseline">>, <<"tasmin", "future">>,
                 <<"pr_day", "baseline">>, <<"pr_day", "future">> >>

\* SCENARIOS = ['ssp245', 'ssp585']
CpScenarios == 2

NoScenario == [baseline_mean_c |-> Unset, future_mean_c |-> Unset,
               change_c |-> Unset, baseline_k |-> Unset]

\* extract_temperature_stats: change_c, round(future - baseline, 2) in 0.01
cp_change_mean(baseline_mean, future_mean) ==
    IF Truthy(baseline_mean) /\ Truthy(future_mean)
    THEN Some(RoundDiv(future_mean.v - baseline_mean.v, 10))
    ELSE None

cp_request ==
    /\ bd.script = "cp"
    /\ bd.pc = "run"
    /\ LET band == CpRequests[bd.step][1]
           isbase == CpRequests[bd.step][2] = "baseline"
       IN
       \E reply \in Replies(band) \ (IF isbase \/ band = "tas" THEN {} ELSE {None}) :
         LET base1 == IF isbase THEN CountBase(bd.base, band, reply) ELSE bd.base
         IN
         IF reply = Raise
         THEN \* the exception reaches the except of extract_climate_projections
              bd' = [bd EXCEPT !.pc = "done", !.base = base1,
                               !.raised = @ \cup {band},
                               !.data_available = FALSE, !.error = TRUE]
         ELSE
         LET sc1 == IF band # "tas" THEN bd.scen[bd.cell]
                    ELSE IF isbase
                    THEN [bd.scen[bd.cell] EXCEPT
                             !.baseline_k = reply,
                             !.baseline_mean_c = kelvin_to_celsius(reply)]
                    ELSE [bd.scen[bd.cell] EXCEPT
                             !.future_mean_c = kelvin_to_celsius(reply),
                             !.change_c = cp_change_mean(bd.scen[bd.cell].baseline_k, reply)]
         IN
         IF bd.step < Len(CpRequests)
         THEN bd' = [bd EXCEPT !.step = @ + 1, !.base = base1,
                               !.scen[bd.cell] = sc1]
         ELSE bd' = [bd EXCEPT
                        !.step = 1,
                        !.cell = @ + 1,
                        !.base = base1,
                        !.scen[bd.cell] = sc1,
                        !.cells_done = @ + 1,
                        !.pc = IF bd.cell = CpScenarios THEN "done" ELSE "run",
                        !.data_available = (bd.cell = CpScenarios)]
    /\ UNCHANGED <<batchVars, rp, ws, fc, gd, mn>>

BuilderStart(script) ==
    [script |-> script, pc |-> "run",
     cell |-> IF script = "ssr" THEN 0 ELSE 1,
     step |-> 1,
     cur |-> NoCell, ref |-> NoCell, last |-> NoPeriodData,
     scen |-> [sc \in 1..CpScenarios |-> NoScenario],
     base |-> NoBase, raised |-> {}, cells_done |-> 0,
     data_available |-> FALSE, error |-> FALSE]

BuilderInit ==
    /\ BatchOff
    /\ rp = RpOff
    /\ ws = WsOff
    /\ fc = FcOff
    /\ gd = GdOff
    /\ mn = MnOff
    /\ bd \in {BuilderStart("ssr"), BuilderStart("cp")}

BuilderNext == ssr_request \/ cp_request

SpecBuilder == BuilderInit /\ [][BuilderNext]_vars

\* The delta a cell must have against the first baseline reply for tas
DeltaAgainstFirst(future_c) ==
    calculate_change(future_c, kelvin_to_celsius(bd.base["tas"].first), FALSE)

\* C7: while one region is processed each baseline statistic is requested
\* from the backend once, and the temperature delta of every cell is the
\* difference to that one baseline result.
C7_BaselineRequestedOnce ==
    bd.script # "none" =>
        /\ \A band \in AllBands : bd.base[band].count <= 1
        /\ (bd.script = "ssr" /\ bd.last.cell > 0) =>
              bd.last.change_c = DeltaAgainstFirst(bd.last.mean_c)
        /\ bd.script = "cp" =>
              \A sc \in 1..CpScenarios :
                  bd.scen[sc].change_c.some =>
                      bd.scen[sc].change_c = DeltaAgainstFirst(bd.scen[sc].future_mean_c)

\* C8: in extract_ssr_climate_indicators a backend failure for one band of
\* one cell leaves the rest of the matrix extracted and the result
\* data_available.
C8_BandFailureIsLocal ==
    (bd.script = "ssr" /\ bd.pc = "done" /\ bd.raised # {}) =>
        /\ bd.data_available
        /\ bd.cells_done = SsrCells

(***************************************************************************)
(* add_water_stress.py extract_water_stress (the same computation is       *)
(* inlined in add_anp.py, water stress block).                             *)
(*                                                                         *)
(* Raw indicator values are exact numbers in hundredths (10 is 0.1, 1000   *)
(* is 10.0); areas are in km2.  An average is kept as the exact fraction   *)
(* num/den the code divides, a reported value is in units of 0.0001.       *)
(***************************************************************************)
Sentinel == -9999

\* JSON null / Python None, for a raw value and for a reported value
NoneV == -1

Areas == {0, 1, 3, 10, 30}

BwsRaw == {Sentinel, NoneV, 0, 10, 30}

DrrRaw == {Sentinel, 0, 1000, 2000}

\* The properties of one intersecting sub-basin feature
Features == [area : Areas, bws : BwsRaw, drr : DrrRaw]

NoAvg == [some |-> FALSE, num |-> 0, den |-> 1]

\* round(x, 4) of x = num/den hundredths, in units of 0.0001 (ties to even)
Round4(num, den) ==
    LET n == 100 * num
        q == n \div den
        r == n % den
    IN  IF 2 * r < den THEN q
        ELSE IF 2 * r > den THEN q + 1
        ELSE IF q % 2 = 0 THEN q ELSE q + 1

\* `round(avg, 4) if avg else None`
Reported(avg) ==
    IF avg.some /\ avg.num # 0 THEN Round4(avg.num, avg.den) ELSE NoneV

\* `if bws_raw != -9999 or drr_raw != -9999: total_area += area`
ws_counts_area(f) == f.bws # Sentinel \/ f.drr # Sentinel

\* `if bws_raw != -9999 and bws_raw is not None`
ws_valid(raw) == raw # Sentinel /\ raw # NoneV

\* The loop `for f in features` from position k on
RECURSIVE ws_accumulate(_, _, _)
ws_accumulate(features, k, acc) ==
    IF k > Len(features) THEN acc
    ELSE LET f == features[k]
             a1 == IF ws_valid(f.bws)
                   THEN [acc EXCEPT !.weighted_bws = @ + f.bws * f.area,
                                    !.valid_bws = TRUE]
                   ELSE acc
             a2 == IF ws_valid(f.drr)
                   THEN [a1 EXCEPT !.weighted_drr = @ + f.drr * f.area,
                                   !.valid_drr = TRUE]
                   ELSE a1
             a3 == IF ws_counts_area(f)
                   THEN [a2 EXCEPT !.total_area = @ + f.area]
                   ELSE a2
         IN  ws_accumulate(features, k + 1, a3)

\* Mutant: the bound itself belongs to the lower band
AvgBelow_or_equal(avg, x) == avg.num <= x * avg.den

\* Lower than x hundredths: avg < x/100
AvgBelow(avg, x) == avg.num < x * avg.den

bws_category(avg) ==
    IF ~avg.some THEN "None"
    ELSE IF AvgBelow(avg, 10) THEN "Low (<10%)"
    ELSE IF AvgBelow(avg, 20) THEN "Low-Medium (10-20%)"
    ELSE IF AvgBelow(avg, 40) THEN "Medium-High (20-40%)"
    ELSE IF AvgBelow(avg, 80) THEN "High (40-80%)"
    ELSE "Extremely High (>80%)"

drr_category(avg) ==
    IF ~avg.some THEN "None"
    ELSE IF AvgBelow(avg, 20) THEN "Low"
    ELSE IF AvgBelow(avg, 40) THEN "Low-Medium"
    ELSE IF AvgBelow(avg, 60) THEN "Medium"
    ELSE IF AvgBelow(avg, 80) THEN "Medium-High"
    ELSE "High"

extract_water_stress(features) ==
    IF Len(features) = 0
    THEN [data_available |-> FALSE,
          note |-> "No Aqueduct sub-basins intersect this area",
          sub_basins_count |-> 0,
          bws_avg |-> NoAvg, drr_avg |-> NoAvg,
          baseline_water_stress |-> NoneV,
          baseline_water_stress_category |-> "None",
          drought_risk |-> NoneV,
          drought_risk_category |-> "None"]
    ELSE
    LET acc == ws_accumulate(features, 1,
                   [total_area |-> 0, weighted_bws |-> 0, weighted_drr |-> 0,
                    valid_bws |-> FALSE, valid_drr |-> FALSE])
        bws_avg == IF acc.valid_bws /\ acc.total_area > 0
                   THEN [some |-> TRUE, num |-> acc.weighted_bws,
                         den |-> acc.total_area]
                   ELSE NoAvg
        drr_avg == IF acc.valid_drr /\ acc.total_area > 0
                   THEN [some |-> TRUE, num |-> acc.weighted_drr,
                         den |-> acc.total_area]
                   ELSE NoAvg
    IN  [data_available |-> acc.valid_bws \/ acc.valid_drr,
         note |-> IF ~(acc.valid_bws \/ acc.valid_drr)
                  THEN "No water stress data" ELSE "None",
         sub_basins_count |-> Len(features),
         bws_avg |-> bws_avg, drr_avg |-> drr_avg,
         baseline_water_stress |-> Reported(bws_avg),
         baseline_water_stress_category |-> bws_category(bws_avg),
         drought_risk |-> Reported(drr_avg),
         drought_risk_category |-> drr_category(drr_avg)]

\* The result of the call on the features intersecting the region
WsResult == extract_water_stress(ws.units)

WsInit ==
    /\ BatchOff
    /\ rp = RpOff
    /\ bd = BdOff
    /\ fc = FcOff
    /\ gd = GdOff
    /\ mn = MnOff
    /\ ws = [units |-> <<>>, called |-> TRUE]

\* The call on a region that one more sub-basin intersects
ws_call_with_one_more ==
    /\ Len(ws.units) < MaxUnits
    /\ \E f \in Features : ws' = [ws EXCEPT !.units = Append(@, f)]
    /\ UNCHANGED <<batchVars, rp, bd, fc, gd, mn>>

WsNext == ws_call_with_one_more

SpecWS == WsInit /\ [][WsNext]_vars

SameAvg(a, b) ==
    /\ a.some = b.some
    /\ a.some => a.num * b.den = b.num * a.den

\* C9: one more sub-basin whose raw value for an indicator is -9999 leaves
\* that indicator's aggregated value and category as they were, whatever
\* its area and its value for the other indicator.
C9_SentinelUnitIsNeutral ==
    [][ /\ (Len(ws'.units) = Len(ws.units) + 1
            /\ Last(ws'.units).bws = Sentinel)
           => /\ SameAvg(WsResult'.bws_avg, WsResult.bws_avg)
              /\ WsResult'.baseline_water_stress = WsResult.baseline_water_stress
              /\ WsResult'.baseline_water_stress_category
                   = WsResult.baseline_water_stress_category
        /\ (Len(ws'.units) = Len(ws.units) + 1
            /\ Last(ws'.units).drr = Sentinel)
           => /\ SameAvg(WsResult'.drr_avg, WsResult.drr_avg)
              /\ WsResult'.drought_risk = WsResult.drought_risk
              /\ WsResult'.drought_risk_category
                   = WsResult.drought_risk_category
      ]_vars

RECURSIVE SumValid(_, _, _)
\* Sum over the units whose value for the indicator is valid: of
\* value * area (what = "weighted") or of area (what = "area")
SumValid(units, ind, what) ==
    IF units = <<>> THEN 0
    ELSE LET f == Head(units)
             raw == IF ind = "bws" THEN f.bws ELSE f.drr
             term == IF ~ws_valid(raw) THEN 0
                     ELSE IF what = "area" THEN f.area
                     ELSE raw * f.area
         IN  term + SumValid(Tail(units), ind, what)

\* C10: when some unit has a valid value (and the valid units have an
\* area), the aggregated value of an indicator is sum(value*area)/sum(area)
\* over exactly the units whose value for that indicator is valid.
C10_AverageOverValidUnits ==
    ws.called =>
        /\ SumValid(ws.units, "bws", "area") > 0 =>
              /\ WsResult.bws_avg.some
              /\ WsResult.bws_avg.num * SumValid(ws.units, "bws", "area")
                   = SumValid(ws.units, "bws", "weighted") * WsResult.bws_avg.den
        /\ SumValid(ws.units, "drr", "area") > 0 =>
              /\ WsResult.drr_avg.some
              /\ WsResult.drr_avg.num * SumValid(ws.units, "drr", "area")
                   = SumValid(ws.units, "drr", "weighted") * WsResult.drr_avg.den

\* C11: no division by a zero total area: for an empty unit list, an
\* all-sentinel list, or units whose area contributing to an indicator sums
\* to 0, the indicator's aggregated value and its category are both None.
C11_ZeroAreaIsNone ==
    ws.called =>
        /\ SumValid(ws.units, "bws", "area") = 0 =>
              /\ ~WsResult.bws_avg.some
              /\ WsResult.baseline_water_stress = NoneV
              /\ WsResult.baseline_water_stress_category = "None"
        /\ SumValid(ws.units, "drr", "area") = 0 =>
              /\ ~WsResult.drr_avg.some
              /\ WsResult.drought_risk = NoneV
              /\ WsResult.drought_risk_category = "None"

(***************************************************************************)
(* The pure helper functions, each applied to inputs of its own.           *)
(*                                                                         *)
(* Units: temperatures in 0.01 C, daily precipitation in 0.01 mm/day,      *)
(* ratios in 0.01; the inputs of the estimators are multiples of 0.25, for *)
(* which the floating-point products of the code are exact.                *)
(***************************************************************************)
\* int(n/d): truncation toward zero (d > 0)
IntOf(n, d) == IF n >= 0 THEN n \div d ELSE -((-n) \div d)

\* Mutant: the third band starts again from 0
estimate_tropical_nights_jump(mean_min_temp_c) ==
    IF ~mean_min_temp_c.some THEN None
    ELSE LET t == mean_min_temp_c.v IN
         IF t < 1000 THEN Some(0)
         ELSE IF t < 1500 THEN Some(IntOf((t - 1000) * 6, 100))
         ELSE IF t < 2000 THEN Some(IntOf((t - 1500) * 18, 100))
         ELSE IF t < 2500 THEN Some(IntOf(12000 + (t - 2000) * 26, 100))
         ELSE Some(IntOf(25000 + (t - 2500) * 20, 100))

\* add_ssr_climate_indicators.py
estimate_tropical_nights(mean_min_temp_c) ==
    IF ~mean_min_temp_c.some THEN None
    ELSE LET t == mean_min_temp_c.v IN
         IF t < 1000 THEN Some(0)
         ELSE IF t < 1500 THEN Some(IntOf((t - 1000) * 6, 100))
         ELSE IF t < 2000 THEN Some(IntOf(3000 + (t - 1500) * 18, 100))
         ELSE IF t < 2500 THEN Some(IntOf(12000 + (t - 2000) * 26, 100))
         ELSE Some(IntOf(25000 + (t - 2500) * 20, 100))

estimate_frost_days(mean_min_temp_c) ==
    IF ~mean_min_temp_c.some THEN None
    ELSE LET t == mean_min_temp_c.v IN
         IF t > 1000 THEN Some(0)
         ELSE IF t > 500 THEN Some(IntOf((1000 - t) * 3, 100))
         ELSE IF t > 0 THEN Some(IntOf(1500 + (500 - t) * 10, 100))
         ELSE IF t > -500 THEN Some(IntOf(6500 + (0 - t) * 15, 100))
         ELSE Some(IntOf(14000 + (-500 - t) * 10, 100))

\* Mutant: a non-positive precipitation counts as the driest band
estimate_dry_days_no_guard(mean_precip_mm_day) ==
    IF ~mean_precip_mm_day.some THEN None ELSE Some(90)

estimate_dry_days(mean_precip_mm_day) ==
    IF ~mean_precip_mm_day.some \/ mean_precip_mm_day.v <= 0 THEN None
    ELSE LET q == mean_precip_mm_day.v IN
         IF q < 100 THEN Some(90)
         ELSE IF q < 200 THEN Some(IntOf(9000 - (q - 0) * 30, 100))
         ELSE IF q < 500 THEN Some(IntOf(6000 - (q - 200) * 10, 100))
         ELSE IF q < 1000 THEN Some(IntOf(3000 - (q - 500) * 3, 100))
         ELSE Some(15)

\* add_climate_projections.py
cp_estimate_tropical_nights(mean_min_temp_c) ==
    IF ~mean_min_temp_c.some THEN None
    ELSE LET t == mean_min_temp_c.v IN
         IF t < 1000 THEN Some(0)
         ELSE IF t < 1500 THEN Some(IntOf((t - 1000) * 6, 100))
         ELSE IF t < 2000 THEN Some(IntOf(3000 + (t - 1500) * 18, 100))
         ELSE IF t < 2500 THEN Some(IntOf(12000 + (t - 2000) * 26, 100))
         ELSE Some(IntOf(25000 + (t - 2500) * 20, 100))

cp_estimate_dry_days(mean_precip_mm_day) ==
    IF ~mean_precip_mm_day.some \/ mean_precip_mm_day.v <= 0 THEN None
    ELSE LET q == mean_precip_mm_day.v IN
         IF q < 100 THEN Some(90)
         ELSE IF q < 200 THEN Some(IntOf(9000 - (q - 0) * 30, 100))
         ELSE IF q < 500 THEN Some(IntOf(6000 - (q - 200) * 10, 100))
         ELSE IF q < 1000 THEN Some(IntOf(3000 - (q - 500) * 3, 100))
         ELSE Some(15)

categorize_drought_risk(mean_precip_mm_day) ==
    IF ~mean_precip_mm_day.some THEN "None"
    ELSE LET q == mean_precip_mm_day.v IN
         IF q < 100 THEN "Very High"
         ELSE IF q < 200 THEN "High"
         ELSE IF q < 400 THEN "Medium"
         ELSE IF q < 600 THEN "Low-Medium"
         ELSE "Low"

\* The average bws_avg / drr_avg of a given value
AvgOf(a) == [some |-> a.some, num |-> a.v, den |-> 1]

TempInputs == {None} \cup {Some(25 * k) : k \in -60..120}

PrecipInputs == {None} \cup {Some(25 * k) : k \in -4..48}

RatioInputs == {None} \cup {Some(k) : k \in 0..100}

ChangeInputs == {None, Some(0), Some(-250), Some(500), Some(10000), Some(12505)}

FnCall(fn, script, a, b, is_percent, out, label) ==
    [fn |-> fn, script |-> script, a |-> a, b |-> b,
     is_percent |-> is_percent, out |-> out, label |-> label]

fn_estimate_tropical_nights ==
    /\ \E a \in TempInputs, script \in {"ssr", "cp"} :
         fc' = FnCall("estimate_tropical_nights", script, a, None, FALSE,
                      IF script = "ssr" THEN estimate_tropical_nights(a)
                      ELSE cp_estimate_tropical_nights(a), "None")
    /\ UNCHANGED <<batchVars, rp, bd, ws, gd, mn>>

fn_estimate_frost_days ==
    /\ \E a \in TempInputs :
         fc' = FnCall("estimate_frost_days", "ssr", a, None, FALSE,
                      estimate_frost_days(a), "None")
    /\ UNCHANGED <<batchVars, rp, bd, ws, gd, mn>>

fn_estimate_dry_days ==
    /\ \E a \in PrecipInputs, script \in {"ssr", "cp"} :
         fc' = FnCall("estimate_dry_days", script, a, None, FALSE,
                      IF script = "ssr" THEN estimate_dry_days(a)
                      ELSE cp_estimate_dry_days(a), "None")
    /\ UNCHANGED <<batchVars, rp, bd, ws, gd, mn>>

fn_categorize_drought_risk ==
    /\ \E a \in PrecipInputs :
         fc' = FnCall("categorize_drought_risk", "cp", a, None, FALSE, None,
                      categorize_drought_risk(a))
    /\ UNCHANGED <<batchVars, rp, bd, ws, gd, mn>>

fn_bws_category ==
    /\ \E a \in RatioInputs :
         fc' = FnCall("bws_category", "ws", a, None, FALSE, None,
                      bws_category(AvgOf(a)))
    /\ UNCHANGED <<batchVars, rp, bd, ws, gd, mn>>

fn_drr_category ==
    /\ \E a \in RatioInputs :
         fc' = FnCall("drr_category", "ws", a, None, FALSE, None,
                      drr_category(AvgOf(a)))
    /\ UNCHANGED <<batchVars, rp, bd, ws, gd, mn>>

fn_calculate_change ==
    /\ \E a \in ChangeInputs, b \in ChangeInputs, is_percent \in BOOLEAN :
         fc' = FnCall("calculate_change", "ssr", a, b, is_percent,
                      calculate_change(a, b, is_percent), "None")
    /\ UNCHANGED <<batchVars, rp, bd, ws, gd, mn>>

\* The reply of a reduceRegion(...).getInfo(): the value under the requested
\* key, None when the reply lacks the key.  Areas in m2, temperatures in mK.
AreaReplies == {None, Some(0), Some(5000), Some(1234567), Some(25000000)}

KelvinReplies == {None, Some(293150), Some(295654)}

\* add_ssr_climate_indicators.py extract_temperature_indicators: 'mean_c'
ssr_temperature_mean_c(tas_mean) == kelvin_to_celsius(tas_mean)

\* batch_add_anps.py extract_data: round(loss.get('loss', 0) / 1e6, 2),
\* in 0.01 km2
forest_total_loss_km2(loss) ==
    Some(RoundDiv(IF loss.some THEN loss.v ELSE 0, 10000))

\* batch_add_anps.py extract_data: round(ba.get('BurnDate', 0) / 1e6, 2),
\* in 0.01 km2
fire_burned_area_km2(ba) ==
    Some(RoundDiv(IF ba.some THEN ba.v ELSE 0, 10000))

\* add_mangrove_data.py extract_mangrove_data: 'mangrove_extent_km2',
\* in 0.0001 km2
mangrove_extent_km2(stats) ==
    LET area_m2 == IF stats.some THEN stats.v ELSE 0
        area_km2 == IF area_m2 # 0 THEN RoundDiv(area_m2, 100) ELSE 0
    IN  IF area_km2 < 100 THEN Some(0) ELSE Some(area_km2)

\* Backend replies for a mean precipitation: 'pr' of the projections script
\* in 0.01 mm/year, 'pr_mean' of the indicators script in 1e-7 kg/m2/s
MmReplies == {None, Some(0), Some(4), Some(50000), Some(123456)}

PrReplies == {None, Some(0), Some(250), Some(12345)}

\* Backend replies for a mean minimum temperature, in 0.001 K
TasminReplies == {None, Some(273150), Some(273152), Some(283150), Some(295654)}

\* add_climate_projections.py extract_precipitation_stats:
\* round(baseline_mm, 1) if baseline_mm else None, in 0.1 mm
cp_baseline_annual_mm(baseline_mm) ==
    IF Truthy(baseline_mm) THEN Some(RoundDiv(baseline_mm.v, 10)) ELSE None

\* add_climate_projections.py extract_heat_indicators:
\* estimate_tropical_nights(baseline_min_c) if baseline_min_c else None
cp_tropical_nights_baseline(tasmin) ==
    LET baseline_min_c == kelvin_to_celsius(tasmin)
    IN  IF Truthy(baseline_min_c) THEN cp_estimate_tropical_nights(baseline_min_c)
        ELSE None

\* add_ssr_climate_indicators.py extract_precipitation_indicators:
\* pr_mm_day = pr_mean_val * 86400 if pr_mean_val else None;
\* 'daily_mean_mm': round(pr_mm_day, 2) if pr_mm_day else None, in 0.01 mm
ssr_daily_mean_mm(pr_mean_val) ==
    IF Truthy(pr_mean_val) THEN Some(RoundDiv(pr_mean_val.v * 864, 1000))
    ELSE None

fn_cp_baseline_annual_mm ==
    /\ \E a \in MmReplies :
         fc' = FnCall("precipitation.baseline_annual_mm", "cp", a, None, FALSE,
                      cp_baseline_annual_mm(a), "None")
    /\ UNCHANGED <<batchVars, rp, bd, ws, gd, mn>>

fn_cp_tropical_nights_baseline ==
    /\ \E a \in TasminReplies :
         fc' = FnCall("heat_stress.tropical_nights_baseline_estimate", "cp", a,
                      None, FALSE, cp_tropical_nights_baseline(a), "None")
    /\ UNCHANGED <<batchVars, rp, bd, ws, gd, mn>>

fn_ssr_daily_mean_mm ==
    /\ \E a \in PrReplies :
         fc' = FnCall("precipitation.daily_mean_mm", "ssr", a, None, FALSE,
                      ssr_daily_mean_mm(a), "None")
    /\ UNCHANGED <<batchVars, rp, bd, ws, gd, mn>>

fn_ssr_temperature_mean_c ==
    /\ \E a \in KelvinReplies :
         fc' = FnCall("temperature.mean_c", "ssr", a, None, FALSE,
                      ssr_temperature_mean_c(a), "None")
    /\ UNCHANGED <<batchVars, rp, bd, ws, gd, mn>>

fn_forest_total_loss_km2 ==
    /\ \E a \in AreaReplies :
         fc' = FnCall("forest.total_loss_km2", "batch_add_anps", a, None, FALSE,
                      forest_total_loss_km2(a), "None")
    /\ UNCHANGED <<batchVars, rp, bd, ws, gd, mn>>

fn_fire_burned_area_km2 ==
    /\ \E a \in AreaReplies :
         fc' = FnCall("fire.burned_area_km2", "batch_add_anps", a, None, FALSE,
                      fire_burned_area_km2(a), "None")
    /\ UNCHANGED <<batchVars, rp, bd, ws, gd, mn>>

fn_mangrove_extent_km2 ==
    /\ \E a \in AreaReplies :
         fc' = FnCall("mangrove_extent_km2", "add_mangrove_data", a, None, FALSE,
                      mangrove_extent_km2(a), "None")
    /\ UNCHANGED <<batchVars, rp, bd, ws, gd, mn>>

FnInit ==
    /\ BatchOff
    /\ rp = RpOff
    /\ bd = BdOff
    /\ ws = WsOff
    /\ fc = FcOff
    /\ gd = GdOff
    /\ mn = MnOff

FnNext ==
    \/ fn_estimate_tropical_nights
    \/ fn_estimate_frost_days
    \/ fn_estimate_dry_days
    \/ fn_categorize_drought_risk
    \/ fn_bws_category
    \/ fn_drr_category
    \/ fn_calculate_change
    \/ fn_ssr_temperature_mean_c
    \/ fn_forest_total_loss_km2
    \/ fn_fire_burned_area_km2
    \/ fn_mangrove_extent_km2
    \/ fn_cp_baseline_annual_mm
    \/ fn_cp_tropical_nights_baseline
    \/ fn_ssr_daily_mean_mm

SpecFn == FnInit /\ [][FnNext]_vars

\* The bands of a category table: the label of band i holds from the bound
\* of band i-1 (included) up to its own bound (excluded); the last band has
\* no upper bound.
BwsTable == << <<10, "Low (<10%)">>, <<20, "Low-Medium (10-20%)">>,
               <<40, "Medium-High (20-40%)">>, <<80, "High (40-80%)">>,
               <<-1, "Extremely High (>80%)">> >>

DrrTable == << <<20, "Low">>, <<40, "Low-Medium">>, <<60, "Medium">>,
               <<80, "Medium-High">>, <<-1, "High">> >>

DroughtRiskTable == << <<100, "Very High">>, <<200, "High">>, <<400, "Medium">>,
                       <<600, "Low-Medium">>, <<-1, "Low">> >>

InBand(table, i, v) ==
    /\ i > 1 => table[i - 1][1] <= v
    /\ i < Len(table) => v < table[i][1]

HalfOpenBands(table, v, label) ==
    \A i \in 1..Len(table) : InBand(table, i, v) <=> label = table[i][2]

\* C12: each category table maps every present value to exactly one label,
\* the one of the half-open band [lower bound, upper bound) holding it: a
\* value equal to a bound is in the higher band (0.1 is "Low-Medium").
C12_CategoryBandsHalfOpen ==
    /\ (fc.fn = "bws_category" /\ fc.a.some) =>
          /\ HalfOpenBands(BwsTable, fc.a.v, fc.label)
          /\ fc.a.v = 10 => fc.label = "Low-Medium (10-20%)"
    /\ (fc.fn = "drr_category" /\ fc.a.some) =>
          HalfOpenBands(DrrTable, fc.a.v, fc.label)
    /\ (fc.fn = "categorize_drought_risk" /\ fc.a.some) =>
          HalfOpenBands(DroughtRiskTable, fc.a.v, fc.label)

C12_Witness ==
    /\ fc.fn = "bws_category"
    /\ fc.a = Some(10)
    /\ fc.label = "Low-Medium (10-20%)"

\* C13: calculate_change with is_percent returns the rounded
\* (future - baseline) / baseline * 100 when both values are present and
\* the baseline is not 0, and None in every other case.
C13_PercentChangeOrNone ==
    (fc.fn = "calculate_change" /\ fc.is_percent) =>
        IF fc.a.some /\ fc.b.some /\ fc.b.v # 0
        THEN /\ fc.out.some
             /\ LET n == (fc.a.v - fc.b.v) * 1000
                     d == fc.b.v
                 IN  \* |out - n/d| <= 1/2, in tenths of a percent
                     IF d > 0
                     THEN 2 * fc.out.v * d - 2 * n \in (-d)..d
                     ELSE 2 * fc.out.v * d - 2 * n \in d..(-d)
        ELSE fc.out = None

\* C14: each estimator returns None for a None input, and estimate_dry_days
\* returns None for every precipitation <= 0.
C14_EstimatorsKeepNone ==
    /\ (fc.fn \in {"estimate_tropical_nights", "estimate_frost_days",
                   "estimate_dry_days"} /\ ~fc.a.some) => fc.out = None
    /\ (fc.fn = "estimate_dry_days" /\ fc.a.some /\ fc.a.v <= 0) => fc.out = None

C14_Witness ==
    /\ fc.fn = "estimate_dry_days"
    /\ fc.script = "cp"
    /\ fc.a = Some(0)
    /\ fc.out = None

\* C17: in every extractor, when the backend's reply lacks the requested
\* statistic key, the output field is None, never the number 0.
C17_MissingKeyIsNone ==
    (/\ fc.fn \in {"temperature.mean_c", "forest.total_loss_km2",
                   "fire.burned_area_km2", "mangrove_extent_km2"}
     /\ ~fc.a.some) => fc.out = None

(***************************************************************************)
(* extract_climate_timeseries.py: point_in_polygon, pixel_overlaps_polygon *)
(* and create_grid_points.  Coordinates and the resolution are in units of *)
(* 0.25 degree (exact in floating point, as are the sums and quotients on  *)
(* the rings below); a point is <<lon, lat>>.                              *)
(***************************************************************************)
\* `(yi > y) != (yj > y) and x < (xj - xi) * (y - yi) / (yj - yi) + xi`
pip_edge_crossed(x, y, pi, pj) ==
    LET xi == pi[1]
        yi == pi[2]
        xj == pj[1]
        yj == pj[2]
    IN  /\ (yi > y) # (yj > y)
        /\ IF yj - yi > 0
           THEN (x - xi) * (yj - yi) < (xj - xi) * (y - yi)
           ELSE (x - xi) * (yj - yi) > (xj - xi) * (y - yi)

RECURSIVE pip_loop(_, _, _, _, _)
\* The loop `for i in range(n)` from i on (1-based), j the previous index
pip_loop(point, polygon, i, j, inside) ==
    IF i > Len(polygon) THEN inside
    ELSE pip_loop(point, polygon, i + 1, i,
                  IF pip_edge_crossed(point[1], point[2], polygon[i], polygon[j])
                  THEN ~inside ELSE inside)

point_in_polygon(point, polygon) ==
    pip_loop(point, polygon, 1, Len(polygon), FALSE)

\* Mutant: only the centre of the cell is probed
pixel_overlaps_polygon_centre_only(center, resolution, polygon) ==
    point_in_polygon(center, polygon)

\* resolution is even, so that half = resolution / 2 is a whole number
pixel_overlaps_polygon(center, resolution, polygon) ==
    LET x == center[1]
        y == center[2]
        half == resolution \div 2
        corners == << <<x - half, y - half>>, <<x + half, y - half>>,
                      <<x + half, y + half>>, <<x - half, y + half>>, <<x, y>> >>
    IN  \E k \in 1..Len(corners) : point_in_polygon(corners[k], polygon)

SetMin(S) == CHOOSE m \in S : \A e \in S : m <= e

SetMax(S) == CHOOSE m \in S : \A e \in S : m >= e

\* The bounding box expanded by one step: (min_lon, min_lat, max_lon, max_lat)
grid_bbox(bounds, resolution_deg) ==
    LET lons == {bounds[k][1] : k \in 1..Len(bounds)}
        lats == {bounds[k][2] : k \in 1..Len(bounds)}
    IN  <<SetMin(lons) - resolution_deg, SetMin(lats) - resolution_deg,
          SetMax(lons) + resolution_deg, SetMax(lats) + resolution_deg>>

\* The 1 x 1 degree square, as a closed ring, and its bounds
SquareRing == << <<0, 0>>, <<4, 0>>, <<4, 4>>, <<0, 4>>, <<0, 0>> >>

TriangleRing == << <<0, 0>>, <<4, 0>>, <<0, 4>>, <<0, 0>> >>

\* polygon = None when the boundary file cannot be read
NoPolygon == [present |-> FALSE, ring |-> <<>>]

GridPolygons ==
    {NoPolygon} \cup
    {[present |-> TRUE, ring |-> r] :
        r \in {<<>>, << <<0, 0>> >>, << <<0, 0>>, <<4, 4>> >>,
               << <<1, 1>>, <<3, 2>> >>, TriangleRing, SquareRing}}

GridBounds == {<<>>, SquareRing}

\* 0.5 and 1 degree
GridResolutions == {2, 4}

\* The call create_grid_points(bounds, resolution_deg, polygon) begins:
\* min()/max() of an empty list raise ValueError
grid_call ==
    /\ gd.pc = "call"
    /\ IF Len(gd.bounds) = 0
       THEN gd' = [gd EXCEPT !.pc = "raised", !.signal = "ValueError"]
       ELSE LET bbox == grid_bbox(gd.bounds, gd.resolution_deg)
            IN  gd' = [gd EXCEPT !.pc = "loop", !.bbox = bbox,
                                 !.lon = bbox[1], !.lat = bbox[2]]
    /\ UNCHANGED <<batchVars, rp, bd, ws, fc, mn>>

\* One pass of the inner loop body, up to the next test of a `while`
grid_candidate ==
    /\ gd.pc = "loop"
    /\ LET keep == \/ ~gd.polygon.present
                   \/ pixel_overlaps_polygon(<<gd.lon, gd.lat>>,
                                             gd.resolution_deg, gd.polygon.ring)
           points1 == IF keep THEN Append(gd.points, <<gd.lon, gd.lat>>)
                      ELSE gd.points
           lon1 == gd.lon + gd.resolution_deg
           rowdone == lon1 > gd.bbox[3]
           lat1 == IF rowdone THEN gd.lat + gd.resolution_deg ELSE gd.lat
       IN  gd' = [gd EXCEPT
                     !.points = points1,
                     !.lon = IF rowdone THEN gd.bbox[1] ELSE lon1,
                     !.lat = lat1,
                     !.pc = IF lat1 > gd.bbox[4] THEN "returned" ELSE "loop"]
    /\ UNCHANGED <<batchVars, rp, bd, ws, fc, mn>>

GridInit ==
    /\ BatchOff
    /\ rp = RpOff
    /\ bd = BdOff
    /\ ws = WsOff
    /\ fc = FcOff
    /\ mn = MnOff
    /\ \E bounds \in GridBounds, polygon \in GridPolygons,
          resolution_deg \in GridResolutions :
         gd = [pc |-> "call", bounds |-> bounds, polygon |-> polygon,
               resolution_deg |-> resolution_deg, bbox |-> <<0, 0, 0, 0>>,
               lon |-> 0, lat |-> 0, points |-> <<>>,
               signal |-> "none"]

GridNext == grid_call \/ grid_candidate

SpecGrid == GridInit /\ [][GridNext]_vars

\* C15: for a boundary ring of fewer than 3 points create_grid_points
\* returns an empty point list and signals MalformedInput to its caller;
\* it does not return normally as if the region had no points.
C15_DegenerateRingSignalled ==
    (/\ gd.pc = "returned"
     /\ gd.polygon.present
     /\ Len(gd.polygon.ring) < 3) =>
        /\ gd.points = <<>>
        /\ gd.signal = "MalformedInput"

\* Strictly inside the 1 x 1 degree square
InSquare(q) == 0 < q[1] /\ q[1] < 4 /\ 0 < q[2] /\ q[2] < 4

\* On the square or inside it
InClosedSquare(q) == 0 <= q[1] /\ q[1] <= 4 /\ 0 <= q[2] /\ q[2] <= 4

Probes(c) == {<<c[1] - 1, c[2] - 1>>, <<c[1] + 1, c[2] - 1>>,
              <<c[1] + 1, c[2] + 1>>, <<c[1] - 1, c[2] + 1>>, c}

SquareCall ==
    /\ gd.pc = "returned"
    /\ gd.polygon = [present |-> TRUE, ring |-> SquareRing]
    /\ gd.bounds = SquareRing
    /\ gd.resolution_deg = 2

\* C16: for the 1 x 1 degree square and resolution 0.5 the result is the 9
\* points of the grid {0, 0.5, 1} x {0, 0.5, 1}, by latitude then longitude:
\* of the candidates of the box expanded by one step, those whose five
\* probes are all outside the square are dropped, the others are kept.
C16_SquareGivesNinePoints ==
    SquareCall =>
        /\ gd.points = << <<0, 0>>, <<2, 0>>, <<4, 0>>,
                          <<0, 2>>, <<2, 2>>, <<4, 2>>,
                          <<0, 4>>, <<2, 4>>, <<4, 4>> >>
        /\ \A i \in -1..3, j \in -1..3 :
              LET c == <<2 * i, 2 * j>> IN
              /\ (\A q \in Probes(c) : ~InClosedSquare(q))
                    => ~(\E k \in 1..Len(gd.points) : gd.points[k] = c)
              /\ (\E q \in Probes(c) : InSquare(q))
                    => (\E k \in 1..Len(gd.points) : gd.points[k] = c)

C16_Witness ==
    /\ SquareCall
    /\ Len(gd.points) = 9

\* C18: in every batch run the regions are visited in ascending order of
\* their data-file path, whatever the progress store holds: the list of
\* files is the ascending one, the loop position only moves one up, and
\* the region being processed is the one at the loop position.
C18_VisitedInPathOrder ==
    [][ (hist'.script = "batch" /\ pc' \notin {"idle", "exited"}) =>
            /\ all_files' = [k \in 1..NumRegions |-> k]
            /\ idx' \in {idx, idx + 1}
            /\ hist'.inflight # 0 => hist'.inflight = idx'
      ]_vars

\* A later run, over a store with content, at the last region
C18_Witness ==
    /\ hist.script = "batch"
    /\ runs > 1
    /\ store.kind = "json"
    /\ Len(store.data.failed) > 0
    /\ pc = "main_extract"
    /\ hist.inflight = NumRegions

NoDuplicates(l) == \A i, j \in 1..Len(l) : l[i] = l[j] => i = j

\* C19: in every persisted progress store a region id occurs at most once
\* within each of completed, failed and skipped, and in at most one of the
\* three lists.
C19_StoreIdsUnique ==
    store.kind = "json" =>
        /\ NoDuplicates(store.data.completed)
        /\ NoDuplicates(store.data.failed)
        /\ NoDuplicates(store.data.skipped)
        /\ Range(store.data.completed) \cap Range(store.data.failed) = {}
        /\ Range(store.data.completed) \cap Range(store.data.skipped) = {}
        /\ Range(store.data.failed) \cap Range(store.data.skipped) = {}

\* C20: the retry pass persists each retried region's outcome before the
\* next region is attempted: whenever the pass is about to attempt a
\* region, every region it has found to succeed is in the stored
\* `completed` and no longer in the stored `failed`.
C20_RetryPersistsEachOutcome ==
    (/\ hist.script = "retry"
     /\ pc = "retry_loop"
     /\ idx <= Len(retry.failed)) =>
        \A k \in 1..Len(retry.newly_completed) :
            /\ store.kind = "json"
            /\ Contains(store.data.completed, retry.newly_completed[k])
            /\ ~Contains(store.data.failed, retry.newly_completed[k])

(***************************************************************************)
(* main and process_anp of add_water_stress.py and of                      *)
(* add_climate_projections.py: the loop over the data files and the counts *)
(* of the summary line "Complete: N updated, N skipped, N errors".         *)
(***************************************************************************)
\* What process_anp finds in a data file: a valid record of the dataset, no
\* bounds, or bounds and no valid record
MainFileKinds == {"has_data", "nobounds", "fresh"}

\* How the extraction of a fresh file goes: the extraction function returns
\* a data_available result ("ok"), a result without data and without error
\* ("nodata", water stress: no sub-basin intersects), the error result of
\* its `except Exception` ("caught"); or writing the data file raises inside
\* process_anp's try ("write_raises")
ExtractionOutcomes(script) ==
    IF script = "ws" THEN {"ok", "nodata", "caught", "write_raises"}
    ELSE {"ok", "caught", "write_raises"}

\* add_water_stress.py process_anp: its return value
ws_process_anp(kind, outcome) ==
    IF kind = "has_data" THEN "skipped"
    ELSE IF kind = "nobounds" THEN "skipped"
    ELSE IF outcome = "write_raises" THEN "error"
    ELSE "success"

\* add_climate_projections.py process_anp: its return value
cp_process_anp_result(kind, outcome) ==
    IF kind = "has_data" THEN "skipped"
    ELSE IF kind = "nobounds" THEN "skipped"
    ELSE IF outcome = "write_raises" THEN "error"
    ELSE "success"

\* One iteration of main's loop `for i, data_file in enumerate(data_files, 1)`
main_process_anp ==
    /\ mn.pc = "loop"
    /\ mn.i <= mn.n
    /\ \E kind \in MainFileKinds, outcome \in ExtractionOutcomes(mn.script) :
         LET result == IF mn.script = "ws" THEN ws_process_anp(kind, outcome)
                       ELSE cp_process_anp_result(kind, outcome)
             extracted == kind = "fresh"
         IN  mn' = [mn EXCEPT
                       !.i = @ + 1,
                       !.success = IF result = "success" THEN @ + 1 ELSE @,
                       !.skipped = IF result = "skipped" THEN @ + 1 ELSE @,
                       !.errors = IF result \notin {"success", "skipped"}
                                  THEN @ + 1 ELSE @,
                       !.caught = IF extracted /\ outcome = "caught"
                                  THEN @ + 1 ELSE @,
                       !.raised = IF extracted /\ outcome = "write_raises"
                                  THEN @ + 1 ELSE @]
    /\ UNCHANGED <<batchVars, rp, bd, ws, fc, gd>>

\* The summary line after the loop
main_summary ==
    /\ mn.pc = "loop"
    /\ mn.i = mn.n + 1
    /\ mn' = [mn EXCEPT !.pc = "done",
                        !.summary = <<mn.success, mn.skipped, mn.errors>>]
    /\ UNCHANGED <<batchVars, rp, bd, ws, fc, gd>>

MainInit ==
    /\ BatchOff
    /\ rp = RpOff
    /\ bd = BdOff
    /\ ws = WsOff
    /\ fc = FcOff
    /\ gd = GdOff
    /\ \E script \in {"ws", "cp"}, n \in 0..MaxFiles :
         mn = [script |-> script, pc |-> "loop", n |-> n, i |-> 1,
               success |-> 0, skipped |-> 0, errors |-> 0,
               caught |-> 0, raised |-> 0, summary |-> <<0, 0, 0>>]

MainNext == main_process_anp \/ main_summary

SpecMain == MainInit /\ [][MainNext]_vars

\* C21: every exception caught during a region's extraction is reflected in
\* the counts: the summary's errors are the regions whose extraction hit an
\* exception (caught in the extraction function, which then returns an
\* error result, or in process_anp), and none of them is under updated.
C21_CaughtExceptionsCounted ==
    mn.pc = "done" =>
        /\ mn.summary[3] = mn.caught + mn.raised
        /\ mn.summary[1] + mn.summary[2] + mn.summary[3] = mn.n

\* The piecewise formula for tropical nights, t in 0.01 C, floored
TropicalNightsFormula(t) ==
    IF t < 1000 THEN 0
    ELSE IF t < 1500 THEN ((t - 1000) * 6) \div 100
    ELSE IF t < 2000 THEN (3000 + (t - 1500) * 18) \div 100
    ELSE IF t < 2500 THEN (12000 + (t - 2000) * 26) \div 100
    ELSE (25000 + (t - 2500) * 20) \div 100

\* The estimator of the script the call was made in
TropicalNightsOf(script, a) ==
    IF script = "ssr" THEN estimate_tropical_nights(a)
    ELSE cp_estimate_tropical_nights(a)

\* C22: estimate_tropical_nights(t) is the floored piecewise formula, a
\* non-negative integer, non-decreasing in t, and at each breakpoint 10, 15,
\* 20, 25 it takes the value the band below reaches there (no jump).
C22_TropicalNightsPiecewise ==
    (fc.fn = "estimate_tropical_nights" /\ fc.a.some) =>
        /\ fc.out = Some(TropicalNightsFormula(fc.a.v))
        /\ fc.out.v >= 0
        /\ \A lower \in TempInputs :
              (lower.some /\ lower.v < fc.a.v)
                  => TropicalNightsOf(fc.script, lower).v <= fc.out.v
        /\ fc.a.v = 1000 => fc.out.v = 0
        /\ fc.a.v = 1500 => fc.out.v = 30
        /\ fc.a.v = 2000 => fc.out.v = 120
        /\ fc.a.v = 2500 => fc.out.v = 250

C22_Witness ==
    /\ fc.fn = "estimate_tropical_nights"
    /\ fc.script = "ssr"
    /\ fc.a = Some(2000)
    /\ fc.out = Some(120)

DryDaysOf(script, a) ==
    IF script = "ssr" THEN estimate_dry_days(a) ELSE cp_estimate_dry_days(a)

\* C29: estimate_dry_days is non-increasing in precipitation over p > 0:
\* a lower precipitation never gives fewer consecutive dry days.
C29_DryDaysNonIncreasing ==
    (fc.fn = "estimate_dry_days" /\ fc.a.some /\ fc.a.v > 0) =>
        \A lower \in PrecipInputs :
            (lower.some /\ lower.v > 0 /\ lower.v < fc.a.v)
                => DryDaysOf(fc.script, lower).v >= fc.out.v

\* C27: in the water-stress result an indicator's reported value is None
\* exactly when its category is None.
C27_ValueNoneIffCategoryNone ==
    ws.called =>
        /\ (WsResult.baseline_water_stress = NoneV)
             <=> (WsResult.baseline_water_stress_category = "None")
        /\ (WsResult.drought_risk = NoneV)
             <=> (WsResult.drought_risk_category = "None")

\* C28: a statistic the backend returns as exactly 0 (0 mm of precipitation,
\* a mean minimum temperature converting to 0.00 C) is reported as the number
\* 0, with its derived indicator computed (0 tropical nights), never as None.
C28_ZeroIsReportedAsNumber ==
    /\ (fc.fn = "precipitation.baseline_annual_mm" /\ fc.a = Some(0))
           => fc.out = Some(0)
    /\ (fc.fn = "heat_stress.tropical_nights_baseline_estimate"
           /\ kelvin_to_celsius(fc.a) = Some(0)) => fc.out = Some(0)
    /\ (fc.fn = "precipitation.daily_mean_mm" /\ fc.a = Some(0))
           => fc.out = Some(0)

\* C23: with a single writer no saved outcome is ever erased: an id in a
\* list of the progress file stays in that list of the file, except that
\* the retry pass moves ids from `failed` to `completed`.
C23_SingleWriterNeverErases ==
    [][store.kind = "json" =>
          /\ store'.kind = "json"
          /\ Range(store.data.completed) \subseteq Range(store'.data.completed)
          /\ Range(store.data.skipped) \subseteq Range(store'.data.skipped)
          /\ \A r \in Range(store.data.failed) :
                \/ r \in Range(store'.data.failed)
                \/ /\ hist.script = "retry"
                   /\ r \in Range(store'.data.completed)]_vars

\* C24: every id in `completed` of the progress file was verified when it
\* was added: its data file holds multi-period projections.
C24_CompletedWasVerified ==
    store.kind = "json" =>
        \A r \in Range(store.data.completed) : check_has_multi_period(files[r])

\* C25: when the subprocess has exited 0 and the region's file holds the
\* data_available record it writes, the batch records the region in
\* `completed`.
C25_WrittenRecordGivesCompleted ==
    (/\ pc = "main_classified"
     /\ hist.last = "exit0"
     /\ files[all_files[idx]] = "single")
        => all_files[idx] \in Range(progress.completed)

\* C26: one call of extract_climate_for_anp(name) extracts and rewrites the
\* named region's record only: no other region's data file changes while
\* its subprocess runs.
C26_ForceTouchesOnlyNamed ==
    [][ChildRunning =>
          \A r \in Regions : files'[r] # files[r] => r = hist.inflight]_vars

\* C30: at the end of a batch run that was not interrupted, every region is
\* in at least one of completed / failed / skipped of the progress file.
C30_EveryRegionListedAtEnd ==
    (hist.script = "batch" /\ pc = "exited") =>
        /\ store.kind = "json"
        /\ \A r \in Regions :
              r \in Range(store.data.completed)
                     \cup Range(store.data.failed)
                     \cup Range(store.data.skipped)

====
